---------------------------- MODULE Spec2Model ----------------------------
(***************************************************************************)
(* Model of curdling's Maestro registry (src/curdling/maestro.py) and of    *)
(* its download service (src/curdling/services/downloader.py).             *)
(*                                                                         *)
(* Encoding of Python values.  Every value is a tuple so that values of    *)
(* different kinds can be compared:                                        *)
(*   None                 <<>>                                             *)
(*   version string       tuple of release numbers, "10.0" is <<10, 0>>    *)
(*   requirement string   <<name, constraints>>, constraints a tuple of    *)
(*                        <<operator, version>>; "foo (== 2.0)" is         *)
(*                        <<"foo", << <<"==", <<2, 0>> >> >> >>, and the   *)
(*                        bare pin "foo (2.0)" has the operator ""         *)
(*   wheel path           tuple of the segments between the hyphens,       *)
(*                        "foo-2.0-py2-none-any.whl" is                    *)
(*                        <<"foo", <<2, 0>>, "py2", "none", "any.whl">>    *)
(*   URL string           <<scheme, netloc, path, params, query, fragment>> *)
(*                        with netloc <<userinfo, host, port>>, path the   *)
(*                        tuple of its segments, and params,               *)
(*                        query and fragment as <<delimiter written, text>> *)
(*                        so that "http://srv/a?" and "http://srv/a" differ *)
(*   HTTP response        <<status, Location header, Content-Disposition>>  *)
(*                        with Content-Disposition <<type, quote, name>>:  *)
(*                        'attachment; filename="pkg.tgz"' is              *)
(*                        <<"attachment", "\"", "pkg.tgz">>                 *)
(*   distribution         <<name, version, download_url, locator base_url>> *)
(***************************************************************************)
EXTENDS Integers, Sequences, FiniteSets, TLC

VARIABLES
    mapping,    \* Maestro.mapping: canonical requirement -> entry
    last,       \* the last call of the single-threaded caller and its outcome
    wk,         \* the workers that call set_data in parallel: worker -> call
    hist,       \* the file_requirement calls made, as <<requirement, parent>>
    locators,   \* AggregatingLocator.locators, each with its catalogs
    server,     \* the remote pages: <<host, path>> -> HTTP response
    outcome     \* the last call made to the download service and its outcome

vars == <<mapping, last, wk, hist, locators, server, outcome>>

\* The state of the download service.
down == <<locators, server, outcome>>

\* The state of the registry and of its callers.
reg == <<mapping, last, wk, hist>>

(***************************************************************************)
(* Bounds of the model.                                                    *)
(***************************************************************************)
\* Most file_requirement calls in one run.
MaxFilings == 3

\* Most locators in a configuration.
MaxLocators == 2

None == <<>>

(***************************************************************************)
(* Version strings.                                                        *)
(***************************************************************************)
Versions == { <<2, 0>>, <<10, 0>> }

\* The characters of a decimal number below 100, as code points.
Digits(n) == IF n < 10 THEN <<48 + n>> ELSE <<48 + (n \div 10), 48 + (n % 10)>>

\* The characters of a version string: the numbers joined by "." (46).
RECURSIVE VersionChars(_)
VersionChars(v) ==
    IF Len(v) = 0 THEN <<>>
    ELSE IF Len(v) = 1 THEN Digits(v[1])
    ELSE Digits(v[1]) \o <<46>> \o VersionChars(Tail(v))

\* Lexicographic order on tuples of numbers; a proper prefix is smaller.
RECURSIVE LexLess(_, _)
LexLess(a, b) ==
    IF Len(b) = 0 THEN FALSE
    ELSE IF Len(a) = 0 THEN TRUE
    ELSE IF a[1] # b[1] THEN a[1] < b[1]
    ELSE LexLess(Tail(a), Tail(b))

\* Python's order on (unicode) strings, which sorted() uses.
StrLess(v, w) == LexLess(VersionChars(v), VersionChars(w))

\* The parts of a version that are not numbers: "a" of a pre-release such
\* as "10.0a1", written <<10, 0, Alpha, 1>>, and the "*final" that ends
\* every key.  In a key they sort as "*a" < "*final" < every number.
Alpha == -2
Final == -1

\* A list without the zeros at its end.
RECURSIVE DropZeros(_)
DropZeros(result) ==
    IF Len(result) > 0 /\ result[Len(result)] = 0
    THEN DropZeros(SubSeq(result, 1, Len(result) - 1))
    ELSE result

\* The loop of distlib's _legacy_key over the parts: the zeros before a
\* part that is not a number are dropped.
RECURSIVE LegacyParts(_, _)
LegacyParts(parts, result) ==
    IF Len(parts) = 0 THEN result
    ELSE LegacyParts(Tail(parts),
                     Append(IF parts[1] < 0 THEN DropZeros(result) ELSE result,
                            parts[1]))

\* distlib's LegacyVersion key: the parts of the version and "*final",
\* without the zeros that end the release or stand before the "a".
LegacyKey(v) == LegacyParts(Append(v, Final), << >>)

VersionLess(v, w) == LexLess(LegacyKey(v), LegacyKey(w))
VersionEq(v, w) == LegacyKey(v) = LegacyKey(w)


\* sorted(set(...), reverse=True) on version strings: greatest string first.
RECURSIVE SortedReverse(_)
SortedReverse(S) ==
    IF S = {} THEN <<>>
    ELSE LET top == CHOOSE x \in S : \A y \in S \ {x} : StrLess(y, x)
         IN  <<top>> \o SortedReverse(S \ {top})

\* The elements of a list, as a set.
Range(seq) == { seq[i] : i \in 1..Len(seq) }

(***************************************************************************)
(* Requirement strings.                                                    *)
(***************************************************************************)
\* util.parse_requirement(s).name
ParsedName(s) == s[1]

\* util.parse_requirement(s).constraints
ParsedConstraints(s) == s[2]

\* str.replace('== ', '') on the rendered constraints "op version, ...": an
\* "==" operator and its blank disappear, every other constraint stays.
RECURSIVE DropEquals(_)
DropEquals(cons) ==
    IF Len(cons) = 0 THEN <<>>
    ELSE <<IF cons[1][1] = "==" THEN <<"", cons[1][2]>> ELSE cons[1]>>
         \o DropEquals(Tail(cons))

format_requirement(s) == <<ParsedName(s), DropEquals(ParsedConstraints(s))>>

\* path.split('-')[1]
wheel_version(path) == path[2]

\* One constraint of a LegacyMatcher against a version.
MatchOne(op, c, v) ==
    CASE op = "<"  -> VersionLess(v, c)
      [] op = ">"  -> VersionLess(c, v)
      [] op = "<=" -> VersionEq(v, c) \/ VersionLess(v, c)
      [] op = ">=" -> VersionEq(v, c) \/ VersionLess(c, v)
      [] op = "!=" -> ~VersionEq(v, c)
      [] OTHER     -> VersionEq(v, c)

\* LegacyMatcher(requirement).match(version): all constraints must hold.
Match(s, v) ==
    \A i \in 1..Len(ParsedConstraints(s)) :
        MatchOne(ParsedConstraints(s)[i][1], ParsedConstraints(s)[i][2], v)

(***************************************************************************)
(* The registry.                                                           *)
(***************************************************************************)
PENDING == 0
FOUND == 1
RETRIEVED == 2
BUILT == 4
CHECKED == 8
INSTALLED == 16
FAILED == 32

Fields == {"requirement", "url", "locator_url", "directory", "tarball",
           "wheel", "exception"}

data_structure == [f \in Fields |-> None]

requirement_structure ==
    [status |-> PENDING, dependency_of |-> <<>>, data |-> data_structure]

\* file_requirement with the key left as the caller spelled it.
file_requirement_unformatted(m, s, dependency_of) ==
    LET m1 == IF s \in DOMAIN m THEN m ELSE m @@ (s :> requirement_structure)
    IN  [m1 EXCEPT ![s].dependency_of = Append(@, dependency_of)]

\* file_requirement that files every requirement as if it were new: the
\* entry of a requirement that is filed again starts over.
file_requirement_resetting(m, s, dependency_of) ==
    LET requirement == format_requirement(s)
    IN  [x \in DOMAIN m \cup {requirement} |->
            IF x = requirement
            THEN [requirement_structure EXCEPT
                    !.dependency_of =
                        IF requirement \in DOMAIN m
                        THEN Append(m[requirement].dependency_of, dependency_of)
                        ELSE <<dependency_of>>]
            ELSE m[x]]

\* Maestro.file_requirement: the mapping after the call.
file_requirement(m, s, dependency_of) ==
    LET requirement == format_requirement(s)
        m1 == IF requirement \in DOMAIN m THEN m
              ELSE m @@ (requirement :> requirement_structure)
    IN  [m1 EXCEPT ![requirement].dependency_of = Append(@, dependency_of)]

\* set_data without its test of the slot: the value is stored over the old one.
set_data_overwriting(m, s, field, value) ==
    LET requirement == format_requirement(s)
    IN  IF requirement \notin DOMAIN m \/ field \notin Fields
        THEN [mapping |-> m, err |-> "KeyError"]
        ELSE [mapping |-> [m EXCEPT ![requirement].data[field] = value],
              err |-> "none"]

\* Maestro.set_data: the mapping after the call and the exception raised.
set_data(m, s, field, value) ==
    LET requirement == format_requirement(s)
    IN  IF requirement \notin DOMAIN m \/ field \notin Fields
        THEN [mapping |-> m, err |-> "KeyError"]
        ELSE IF m[requirement].data[field] # None
        THEN [mapping |-> m, err |-> "ValueError"]
        ELSE [mapping |-> [m EXCEPT ![requirement].data[field] = value],
              err |-> "none"]

\* Maestro.get_data
get_data(m, s, field) ==
    LET requirement == format_requirement(s)
    IN  IF requirement \notin DOMAIN m \/ field \notin Fields
        THEN [ret |-> None, err |-> "KeyError"]
        ELSE [ret |-> m[requirement].data[field], err |-> "none"]

\* a | b on the status bitmaps
RECURSIVE BitOr(_, _)
BitOr(a, b) ==
    IF a = 0 THEN b
    ELSE IF b = 0 THEN a
    ELSE (IF a % 2 = 1 \/ b % 2 = 1 THEN 1 ELSE 0) + 2 * BitOr(a \div 2, b \div 2)

\* Maestro.get_status
get_status(m, s) ==
    LET requirement == format_requirement(s)
    IN  IF requirement \notin DOMAIN m THEN [ret |-> 0, err |-> "KeyError"]
        ELSE [ret |-> m[requirement].status, err |-> "none"]

\* set_status on a mapping that makes the entry it does not find.
set_status_creating(m, s, status) ==
    LET requirement == format_requirement(s)
        m1 == IF requirement \in DOMAIN m THEN m
              ELSE m @@ (requirement :> requirement_structure)
    IN  [mapping |-> [m1 EXCEPT ![requirement].status = status], err |-> "none"]

\* Maestro.set_status: the mapping after the call and the exception raised.
set_status(m, s, status) ==
    LET requirement == format_requirement(s)
    IN  IF requirement \notin DOMAIN m THEN [mapping |-> m, err |-> "KeyError"]
        ELSE [mapping |-> [m EXCEPT ![requirement].status = status],
              err |-> "none"]

\* add_status without the OR: the status is replaced by the new bits.
add_status_replacing(m, s, status) ==
    IF get_status(m, s).err # "none"
    THEN [mapping |-> m, err |-> get_status(m, s).err]
    ELSE set_status(m, s, status)

\* Maestro.add_status
add_status(m, s, status) ==
    IF get_status(m, s).err # "none"
    THEN [mapping |-> m, err |-> get_status(m, s).err]
    ELSE set_status(m, s, BitOr(get_status(m, s).ret, status))

\* a & b on the status bitmaps
RECURSIVE BitAnd(_, _)
BitAnd(a, b) ==
    IF a = 0 \/ b = 0 THEN 0
    ELSE (IF a % 2 = 1 /\ b % 2 = 1 THEN 1 ELSE 0) + 2 * BitAnd(a \div 2, b \div 2)

\* filter_by without the is_pending test.
filter_by_bits_only(m, status) ==
    { key \in DOMAIN m : BitAnd(get_status(m, key).ret, status) # 0 }

\* Maestro.filter_by, as a set: the list holds each key of the dictionary
\* once, in the dictionary's order.  The lambda reads the comprehension's
\* variable `key`, which Python 2 binds in the method's scope.
filter_by(m, status) ==
    { key \in DOMAIN m :
        \/ (get_status(m, key).ret = 0 /\ status = 0)
        \/ BitAnd(get_status(m, key).ret, status) # 0 }

\* Maestro.get_requirements_by_package_name, as a set: the order of the
\* list is that of the dictionary's keys.
get_requirements_by_package_name(m, package_name) ==
    { x \in DOMAIN m : ParsedName(x) = ParsedName(package_name) }

\* Maestro.available_versions: wheel_version(None) raises AttributeError.
available_versions(m, package_name) ==
    IF \E requirement \in DOMAIN m : m[requirement].data["wheel"] = None
    THEN [ret |-> None, err |-> "AttributeError"]
    ELSE [ret |-> SortedReverse({ wheel_version(m[requirement].data["wheel"]) :
                                    requirement \in DOMAIN m }),
          err |-> "none"]

\* The elements of a list that satisfy the matcher, in the list's order.
RECURSIVE Matching(_, _)
Matching(s, versions) ==
    IF Len(versions) = 0 THEN <<>>
    ELSE (IF Match(s, versions[1]) THEN <<versions[1]>> ELSE <<>>)
         \o Matching(s, Tail(versions))

\* Maestro.matching_versions
matching_versions(m, s) ==
    LET versions == available_versions(m, <<ParsedName(s), <<>>>>)
    IN  IF versions.err # "none" THEN versions
        ELSE [ret |-> Matching(s, versions.ret), err |-> "none"]

\* Maestro.is_primary_requirement: the argument is used as the key as it is.
is_primary_requirement(m, s) ==
    IF s \notin DOMAIN m THEN [ret |-> None, err |-> "KeyError"]
    ELSE [ret |-> <<\A i \in 1..Len(m[s].dependency_of) :
                        m[s].dependency_of[i] = None>>,
          err |-> "none"]

\* newest = lambda versions: sorted(versions, reverse=True)[0]
newest(versions) == SortedReverse(Range(versions))[1]

\* The lists that hold every element of a set once: the orders in which
\* a dictionary may yield its keys.
RECURSIVE Orders(_)
Orders(S) ==
    IF S = {} THEN { <<>> }
    ELSE UNION { { <<x>> \o rest : rest \in Orders(S \ {x}) } : x \in S }

\* The requirements of the list that are primary, in the list's order.
RECURSIVE Primaries(_, _)
Primaries(m, requirements) ==
    IF Len(requirements) = 0 THEN <<>>
    ELSE (IF is_primary_requirement(m, requirements[1]).ret = <<TRUE>>
          THEN <<requirements[1]>> ELSE <<>>)
         \o Primaries(m, Tail(requirements))

\* [v for v in versions if all_versions.count(v) == n]
RECURSIVE Compatible(_, _, _)
Compatible(versions, all_versions, n) ==
    IF Len(versions) = 0 THEN <<>>
    ELSE (IF Cardinality({ i \in 1..Len(all_versions) :
                             all_versions[i] = versions[1] }) = n
          THEN <<versions[1]>> ELSE <<>>)
         \o Compatible(Tail(versions), all_versions, n)

\* seq[1] \o seq[2] \o ...
RECURSIVE Concat(_)
Concat(seq) == IF Len(seq) = 0 THEN <<>> ELSE seq[1] \o Concat(Tail(seq))

\* Maestro.best_version.  `requirements` is the list that
\* get_requirements_by_package_name returned, in the dictionary's order.
best_version(m, requirement_or_package_name, requirements) ==
    LET primaries == Primaries(m, requirements)
        versions(r) == matching_versions(m, r).ret
        \* requirements_by_version[v]: the last requirement that matched v
        Matched(v) == { i \in 1..Len(requirements) :
                          v \in Range(versions(requirements[i])) }
        last_match(v) ==
            requirements[CHOOSE i \in Matched(v) : \A j \in Matched(v) : j <= i]
        get_requirement(v) ==
            IF Matched(v) = {} THEN [ret |-> None, err |-> "KeyError"]
            ELSE [ret |-> <<v, last_match(v)>>, err |-> "none"]
        primary_versions ==
            [i \in 1..Len(primaries) |->
                wheel_version(m[primaries[i]].data["wheel"])]
        all_versions ==
            Concat([i \in 1..Len(requirements) |-> versions(requirements[i])])
        compatible_versions ==
            Compatible(all_versions, all_versions, Len(requirements))
    IN  IF available_versions(m, requirement_or_package_name).err # "none"
        THEN \* the first wheel_version(None), in the loop or in the message
             [ret |-> None, err |-> "AttributeError"]
        ELSE IF Len(primaries) > 0
        THEN get_requirement(newest(primary_versions))
        ELSE IF Len(compatible_versions) = 0
        THEN [ret |-> None, err |-> "VersionConflict"]
        ELSE get_requirement(newest(compatible_versions))

(***************************************************************************)
(* Inputs.                                                                 *)
(***************************************************************************)
Names == {"foo", "bar"}

Req(name, op, v) == <<name, << <<op, v>> >> >>

\* "foo (>= 2.0)", "foo (<= 10.0)", "foo (>= 10.0)", "bar (== 2.0)", "bar (2.0)"
ReqStrings ==
    { Req("foo", ">=", <<2, 0>>), Req("foo", "<=", <<10, 0>>),
      Req("foo", ">=", <<10, 0>>),
      Req("bar", "==", <<2, 0>>), Req("bar", "", <<2, 0>>) }

\* The package names, as the strings "foo" and "bar".
NameStrings == { <<n, <<>>>> : n \in Names }

\* What a caller passes as dependency_of: nothing, or the requirement "app".
Parents == { None, <<"app", <<>>>> }

\* "<name>-<version>-py2-none-any.whl"
Wheel(name, v) == <<name, v, "py2", "none", "any.whl">>

\* "http://srv/bar-2.0.tar.gz"
Url == <<"http://srv/bar", <<2, 0>>, "tar.gz">>

\* What a caller stores for a requirement, as <<field, value>>: a wheel
\* for any requirement and the url of "bar".
Stored(s) ==
    { <<"wheel", None>> } \cup { <<"wheel", Wheel(ParsedName(s), v)>> : v \in Versions }
    \cup (IF ParsedName(s) = "bar" THEN { <<"url", Url>> } ELSE {})

\* The file_requirement calls made so far.
RECURSIVE Filings(_)
Filings(m) ==
    IF DOMAIN m = {} THEN 0
    ELSE LET k == CHOOSE x \in DOMAIN m : TRUE
         IN  Len(m[k].dependency_of)
             + Filings([x \in DOMAIN m \ {k} |-> m[x]])

(***************************************************************************)
(* The calls of a single-threaded caller.  `last` keeps the name of the    *)
(* last call and the exception it raised ("none" when it returned).        *)
(***************************************************************************)
Call(op, err) == [op |-> op, err |-> err]

Workers == {"w1", "w2"}

\* A worker's call of set_data: where it is, its arguments, the exception.
WorkerCall(pc, req, field, value, err) ==
    [pc |-> pc, req |-> req, field |-> field, value |-> value, err |-> err]

Idle == WorkerCall("idle", None, "", None, "none")

\* The registry after Maestro.__init__, with nobody calling.
InitRegistry ==
    /\ mapping = << >>
    /\ last = Call("init", "none")
    /\ wk = [w \in Workers |-> Idle]
    /\ hist = << >>

\* A download service without locators or remote pages.
NoDownloads ==
    /\ locators = << >>
    /\ server = << >>
    /\ outcome = [op |-> "init", err |-> "none"]

Init == InitRegistry /\ NoDownloads

\* file_requirement, called by the single-threaded caller.
File(s, parent) ==
    /\ Filings(mapping) < MaxFilings
    /\ mapping' = file_requirement(mapping, s, parent)
    /\ last' = Call("file_requirement", "none")
    /\ UNCHANGED down

FileRequirement(s, parent) ==
    /\ File(s, parent)
    /\ UNCHANGED <<wk, hist>>

SetData(s, field, value) ==
    /\ mapping' = set_data(mapping, s, field, value).mapping
    /\ last' = Call("set_data", set_data(mapping, s, field, value).err)
    /\ UNCHANGED <<wk, hist, locators, server, outcome>>

GetData(s, field) ==
    /\ last' = Call("get_data", get_data(mapping, s, field).err)
    /\ UNCHANGED <<mapping, wk, hist, locators, server, outcome>>

AvailableVersions(name) ==
    /\ last' = Call("available_versions", available_versions(mapping, name).err)
    /\ UNCHANGED <<mapping, wk, hist, locators, server, outcome>>

IsPrimaryRequirement(s) ==
    /\ last' = Call("is_primary_requirement",
                    is_primary_requirement(mapping, s).err)
    /\ UNCHANGED <<mapping, wk, hist, locators, server, outcome>>

BestVersion(name) ==
    /\ \E requirements \in Orders(get_requirements_by_package_name(mapping, name)) :
          last' = Call("best_version",
                       best_version(mapping, name, requirements).err)
    /\ UNCHANGED <<mapping, wk, hist, locators, server, outcome>>

Next ==
    \/ \E s \in ReqStrings, parent \in Parents : FileRequirement(s, parent)
    \/ \E s \in ReqStrings : \E fv \in Stored(s) : SetData(s, fv[1], fv[2])
    \/ \E s \in ReqStrings, field \in {"wheel", "url"} : GetData(s, field)
    \/ \E name \in NameStrings : AvailableVersions(name)
    \/ \E s \in ReqStrings : IsPrimaryRequirement(s)
    \/ \E name \in NameStrings : BestVersion(name)

Spec == Init /\ [][Next]_vars

(***************************************************************************)
(* Two workers that call set_data in parallel.  Nothing in Maestro locks   *)
(* the mapping, so another thread may run between the test of the slot     *)
(* (line 95) and the assignment to it (line 99).                           *)
(***************************************************************************)
\* Lines 94-98 of set_data: the key is formatted and the slot is tested.
set_data_test(m, s, field, value) ==
    LET requirement == format_requirement(s)
    IN  IF requirement \notin DOMAIN m \/ field \notin Fields
        THEN WorkerCall("done", requirement, field, value, "KeyError")
        ELSE IF m[requirement].data[field] # None
        THEN WorkerCall("done", requirement, field, value, "ValueError")
        ELSE WorkerCall("write", requirement, field, value, "none")

\* Line 99 of set_data: the assignment.
set_data_assign(m, call) ==
    [m EXCEPT ![call.req].data[call.field] = call.value]

WorkerTest(w, s, field, value) ==
    /\ wk[w].pc \in {"idle", "done"}
    /\ wk' = [wk EXCEPT ![w] = set_data_test(mapping, s, field, value)]
    /\ UNCHANGED <<mapping, last, hist, locators, server, outcome>>

WorkerAssign(w) ==
    /\ wk[w].pc = "write"
    /\ mapping' = set_data_assign(mapping, wk[w])
    /\ wk' = [wk EXCEPT ![w].pc = "done"]
    /\ UNCHANGED <<last, hist, locators, server, outcome>>

\* "foo (>= 2.0)" and "bar (2.0)"
RaceReqs == { Req("foo", ">=", <<2, 0>>), Req("bar", "", <<2, 0>>) }

NextRace ==
    \/ \E s \in RaceReqs : FileRequirement(s, None)
    \/ \E w \in Workers, s \in RaceReqs :
          \E fv \in Stored(s) : WorkerTest(w, s, fv[1], fv[2])
    \/ \E w \in Workers : WorkerAssign(w)

SpecRace == Init /\ [][NextRace]_vars

(***************************************************************************)
(* The filings of a run, with the calls that were made kept in `hist`.     *)
(***************************************************************************)
FileRequirementLogged(s, parent) ==
    /\ File(s, parent)
    /\ hist' = Append(hist, <<s, parent>>)
    /\ UNCHANGED wk

NextFiling ==
    \/ \E s \in ReqStrings, parent \in Parents : FileRequirementLogged(s, parent)
    \/ \E s \in ReqStrings : SetData(s, "wheel", Wheel(ParsedName(s), <<2, 0>>))

SpecFiling == Init /\ [][NextFiling]_vars

(***************************************************************************)
(* Definitions used to state the properties.                               *)
(***************************************************************************)
\* The values that set_data is called with.
StoredValues == { fv[2] : fv \in UNION { Stored(s) : s \in ReqStrings } }

\* The filed requirements of a package.
Filed(name) == { r \in DOMAIN mapping : r[1] = name[1] }

\* No parent of the filed requirement r is a requirement.
Primary(r) ==
    \A i \in 1..Len(mapping[r].dependency_of) : mapping[r].dependency_of[i] = None

\* The versions of the wheels recorded for the primary requirements.
PrimaryVersions(name) ==
    { mapping[r].data["wheel"][2] :
        r \in { x \in Filed(name) : Primary(x) /\ mapping[x].data["wheel"] # None } }

\* The versions of the wheels recorded for the package's requirements.
RecordedVersions(name) ==
    { mapping[r].data["wheel"][2] :
        r \in { x \in Filed(name) : mapping[x].data["wheel"] # None } }

\* The recorded versions that satisfy every filed requirement of the package.
CompatibleVersions(name) ==
    { v \in RecordedVersions(name) : \A r \in Filed(name) : Match(r, v) }

\* v is the greatest of S under the version scheme.
Greatest(v, S) == v \in S /\ \A w \in S : ~VersionLess(v, w)

(***************************************************************************)
(* C1.  Once set_data has stored a non-null value in a slot, no registry   *)
(* operation changes the slot, get_data returns the value it holds, and    *)
(* every set_data on it, under any spelling of the requirement, raises the *)
(* slot-in-use error (ValueError) and leaves the registry as it was.       *)
(***************************************************************************)
C1_WriteOnce ==
    /\ [](\A k \in DOMAIN mapping, field \in Fields :
            mapping[k].data[field] # None
            => /\ get_data(mapping, k, field)
                    = [ret |-> mapping[k].data[field], err |-> "none"]
               /\ \A s \in ReqStrings, value \in StoredValues :
                     format_requirement(s) = k
                     => set_data(mapping, s, field, value)
                          = [mapping |-> mapping, err |-> "ValueError"])
    /\ [][\A k \in DOMAIN mapping, field \in Fields :
            mapping[k].data[field] # None
            => /\ k \in DOMAIN mapping'
               /\ mapping'[k].data[field] = mapping[k].data[field]]_vars

\* A set_data on a slot that holds a value has been refused.
C1_Witness == last = Call("set_data", "ValueError")

(***************************************************************************)
(* C2.  Of two workers that call set_data on the same unset slot with      *)
(* non-null values, at most one call succeeds.                             *)
(***************************************************************************)
C2_OneWinner ==
    \A w1 \in Workers : \A w2 \in Workers \ {w1} :
        ~ /\ wk[w1].pc = "done" /\ wk[w1].err = "none" /\ wk[w1].value # None
          /\ wk[w2].pc = "done" /\ wk[w2].err = "none" /\ wk[w2].value # None
          /\ wk[w1].req = wk[w2].req
          /\ wk[w1].field = wk[w2].field

(***************************************************************************)
(* C3.  Whenever best_version returns (v, _) for a package, v satisfies    *)
(* every constraint of every non-primary requirement of the package, or    *)
(* the package has a primary requirement and v is the newest of the        *)
(* primary requirements' wheel versions.                                   *)
(***************************************************************************)
C3_SatisfiesOrPrimary ==
    \A name \in NameStrings : \A requirements \in Orders(Filed(name)) :
        LET result == best_version(mapping, name, requirements)
        IN  result.err = "none"
            => \/ \A r \in Filed(name) : ~Primary(r) => Match(r, result.ret[1])
               \/ /\ \E r \in Filed(name) : Primary(r)
                  /\ Greatest(result.ret[1], PrimaryVersions(name))

(***************************************************************************)
(* C4.  When a package has a primary requirement, the version that         *)
(* best_version returns is the newest wheel version of the primary         *)
(* requirements.                                                           *)
(***************************************************************************)
C4_PrimaryOverride ==
    \A name \in NameStrings : \A requirements \in Orders(Filed(name)) :
        LET result == best_version(mapping, name, requirements)
        IN  ((\E r \in Filed(name) : Primary(r)) /\ result.err = "none")
            => Greatest(result.ret[1], PrimaryVersions(name))

(***************************************************************************)
(* C5.  When a package has filed requirements and none is primary,         *)
(* best_version raises VersionConflict if and only if no recorded version  *)
(* satisfies every filed requirement of the package.                       *)
(***************************************************************************)
C5_ConflictIffNoneCompatible ==
    \A name \in NameStrings : \A requirements \in Orders(Filed(name)) :
        LET result == best_version(mapping, name, requirements)
        IN  (Filed(name) # {} /\ \A r \in Filed(name) : ~Primary(r))
            => (result.err = "VersionConflict" <=> CompatibleVersions(name) = {})

(***************************************************************************)
(* C6.  When no requirement of a package is primary and best_version       *)
(* returns, it returns the compatible version that is the greatest under   *)
(* the version scheme.  Stated of the registries that hold requirements    *)
(* of that package only.                                                   *)
(***************************************************************************)
C6_NewestCompatible ==
    \A name \in NameStrings : \A requirements \in Orders(Filed(name)) :
        LET result == best_version(mapping, name, requirements)
        IN  (/\ DOMAIN mapping = Filed(name)
             /\ \A r \in Filed(name) : ~Primary(r)
             /\ result.err = "none")
            => Greatest(result.ret[1], CompatibleVersions(name))

(***************************************************************************)
(* C7.  The versions that available_versions returns for a package are     *)
(* exactly those of the wheels recorded for the package's requirements.    *)
(***************************************************************************)
C7_OwnWheelsOnly ==
    \A name \in NameStrings :
        available_versions(mapping, name).err = "none"
        => Range(available_versions(mapping, name).ret) = RecordedVersions(name)

(***************************************************************************)
(* C8.  The list that available_versions returns is strictly decreasing    *)
(* under the version scheme.                                               *)
(***************************************************************************)
C8_StrictlyDecreasing ==
    \A name \in NameStrings :
        LET result == available_versions(mapping, name)
        IN  result.err = "none"
            => \A i \in 1..Len(result.ret) : \A j \in 1..Len(result.ret) :
                  i < j => VersionLess(result.ret[j], result.ret[i])

(***************************************************************************)
(* C9.  After any filings, each canonical requirement that was filed has   *)
(* exactly one entry, one that was never filed has none, and the entry's   *)
(* back-link list holds one parent per filing, in filing order.            *)
(***************************************************************************)
\* The parents of the filings in h whose requirement canonicalizes to k.
RECURSIVE ParentsFiled(_, _)
ParentsFiled(h, k) ==
    IF Len(h) = 0 THEN <<>>
    ELSE (IF format_requirement(h[1][1]) = k THEN <<h[1][2]>> ELSE <<>>)
         \o ParentsFiled(Tail(h), k)

C9_OneEntryPerFiling ==
    /\ \A s \in ReqStrings :
          LET k == format_requirement(s)
              entries == { x \in DOMAIN mapping : format_requirement(x) = k }
          IN  IF Len(ParentsFiled(hist, k)) = 0 THEN entries = {}
              ELSE /\ entries = {k}
                   /\ mapping[k].dependency_of = ParentsFiled(hist, k)
    /\ \A x \in DOMAIN mapping : \E s \in ReqStrings : format_requirement(s) = x

\* One requirement was filed twice, under two spellings and two parents.
C9_Witness ==
    /\ Len(hist) = 2
    /\ hist[1][1] # hist[2][1]
    /\ format_requirement(hist[1][1]) = format_requirement(hist[2][1])
    /\ hist[1][2] # hist[2][2]
    /\ Len(mapping[format_requirement(hist[1][1])].dependency_of) = 2

(***************************************************************************)
(* C10.  Two spellings of a filed requirement that canonicalize to the     *)
(* same string give the same result in get_status, set_status, add_status, *)
(* set_data, get_data and is_primary_requirement.                          *)
(***************************************************************************)
C10_SpellingsAgree ==
    \A s1 \in ReqStrings, s2 \in ReqStrings :
        (format_requirement(s1) = format_requirement(s2)
         /\ format_requirement(s1) \in DOMAIN mapping)
        => /\ get_status(mapping, s1) = get_status(mapping, s2)
           /\ set_status(mapping, s1, FOUND) = set_status(mapping, s2, FOUND)
           /\ add_status(mapping, s1, FOUND) = add_status(mapping, s2, FOUND)
           /\ \A value \in StoredValues :
                 set_data(mapping, s1, "wheel", value)
                   = set_data(mapping, s2, "wheel", value)
           /\ get_data(mapping, s1, "wheel") = get_data(mapping, s2, "wheel")
           /\ is_primary_requirement(mapping, s1)
                = is_primary_requirement(mapping, s2)

(***************************************************************************)
(* The status bitmaps of the filed requirements.                           *)
(***************************************************************************)
\* The flags of Maestro.Status.
StatusBits == {FOUND, RETRIEVED, BUILT, CHECKED, INSTALLED, FAILED}

\* The flags that the callers of this run add.
AddedBits == {FOUND, RETRIEVED, FAILED}

\* "foo (>= 2.0)", "bar (== 2.0)", "bar (2.0)"
StatusReqs ==
    { Req("foo", ">=", <<2, 0>>), Req("bar", "==", <<2, 0>>),
      Req("bar", "", <<2, 0>>) }

AddStatus(s, status) ==
    /\ mapping' = add_status(mapping, s, status).mapping
    /\ last' = Call("add_status", add_status(mapping, s, status).err)
    /\ UNCHANGED <<wk, hist, locators, server, outcome>>

GetStatus(s) ==
    /\ last' = Call("get_status", get_status(mapping, s).err)
    /\ UNCHANGED <<mapping, wk, hist, locators, server, outcome>>

FilterBy(status) ==
    /\ last' = [op |-> "filter_by", err |-> "none",
                ret |-> filter_by(mapping, status)]
    /\ UNCHANGED <<mapping, wk, hist, locators, server, outcome>>

NextStatus ==
    \/ \E s \in StatusReqs, parent \in Parents : FileRequirement(s, parent)
    \/ \E s \in StatusReqs, status \in AddedBits : AddStatus(s, status)
    \/ \E s \in StatusReqs : GetStatus(s)
    \/ \E status \in {PENDING} \cup AddedBits : FilterBy(status)

SpecStatus == Init /\ [][NextStatus]_vars

\* The flags that are set in a bitmap.
Bits(n) == { b \in StatusBits : (n \div b) % 2 = 1 }

(***************************************************************************)
(* C11.  add_status(r, bit) sets the status of r to the old status with    *)
(* the bit added and leaves every other entry alone, and over any sequence *)
(* of add_status and file_requirement calls the flags of a requirement's   *)
(* status only grow: no step clears a flag.                                *)
(***************************************************************************)
C11_BitsOnlyGrow ==
    /\ [](\A s \in StatusReqs, bit \in StatusBits :
            LET k == format_requirement(s)
                after == add_status(mapping, s, bit)
            IN  k \in DOMAIN mapping
                => /\ after.err = "none"
                   /\ DOMAIN after.mapping = DOMAIN mapping
                   /\ Bits(after.mapping[k].status)
                        = Bits(mapping[k].status) \cup {bit}
                   /\ \A x \in DOMAIN mapping \ {k} :
                         after.mapping[x] = mapping[x])
    /\ [][\A k \in DOMAIN mapping :
            /\ k \in DOMAIN mapping'
            /\ Bits(mapping[k].status) \subseteq Bits(mapping'[k].status)]_vars

\* A requirement that holds two flags has been filed once more.
C11_Witness ==
    /\ last = Call("file_requirement", "none")
    /\ \E k \in DOMAIN mapping :
          /\ DOMAIN mapping = {k}
          /\ Len(mapping[k].dependency_of) = 2
          /\ Bits(mapping[k].status) = {FOUND, FAILED}

(***************************************************************************)
(* C12.  In every reachable registry, filter_by(s) is the set of the filed *)
(* requirements whose status shares a flag with s when s is not 0, and the *)
(* set of the filed requirements whose status is 0 when s is 0 (PENDING).  *)
(***************************************************************************)
C12_FilterByExact ==
    \A s \in 0..63 :
        filter_by(mapping, s)
          = IF s = 0 THEN { k \in DOMAIN mapping : mapping[k].status = 0 }
            ELSE { k \in DOMAIN mapping : Bits(mapping[k].status) \cap Bits(s) # {} }

\* filter_by(PENDING) has returned the one pending requirement of a registry
\* that also holds a requirement with two flags.
C12_Witness ==
    /\ last.op = "filter_by"
    /\ \E k1 \in DOMAIN mapping : \E k2 \in DOMAIN mapping :
          /\ mapping[k1].status = PENDING
          /\ Cardinality(Bits(mapping[k2].status)) = 2
          /\ last.ret = {k1}

(***************************************************************************)
(* Calls that name a requirement that was never filed.                     *)
(***************************************************************************)
SetStatus(s, status) ==
    /\ mapping' = set_status(mapping, s, status).mapping
    /\ last' = Call("set_status", set_status(mapping, s, status).err)
    /\ UNCHANGED <<wk, hist, locators, server, outcome>>

NextUnknown ==
    \/ \E s \in StatusReqs, parent \in Parents : FileRequirement(s, parent)
    \/ \E s \in StatusReqs, status \in {PENDING, FAILED} : SetStatus(s, status)
    \/ \E s \in StatusReqs : AddStatus(s, FOUND)
    \/ \E s \in StatusReqs : GetStatus(s)
    \/ \E s \in StatusReqs : SetData(s, "wheel", Wheel(ParsedName(s), <<2, 0>>))
    \/ \E s \in StatusReqs : GetData(s, "wheel")

SpecUnknown == Init /\ [][NextUnknown]_vars

(***************************************************************************)
(* C13.  set_status, add_status, get_status, set_data and get_data called  *)
(* with a requirement that was never filed raise the unknown-requirement   *)
(* error (KeyError) and leave the registry as it was: no entry is made and *)
(* no entry is changed.                                                    *)
(***************************************************************************)
C13_UnknownRequirement ==
    /\ [](\A s \in ReqStrings :
            format_requirement(s) \notin DOMAIN mapping
            => /\ \A status \in {PENDING} \cup StatusBits :
                    /\ set_status(mapping, s, status)
                         = [mapping |-> mapping, err |-> "KeyError"]
                    /\ add_status(mapping, s, status)
                         = [mapping |-> mapping, err |-> "KeyError"]
               /\ get_status(mapping, s).err = "KeyError"
               /\ \A field \in Fields :
                    /\ get_data(mapping, s, field).err = "KeyError"
                    /\ \A value \in StoredValues :
                          set_data(mapping, s, field, value)
                            = [mapping |-> mapping, err |-> "KeyError"])
    /\ [][last'.err = "KeyError" => mapping' = mapping]_vars

\* set_status has been refused for a requirement that is not in a registry
\* that holds another requirement.
C13_Witness ==
    /\ last = Call("set_status", "KeyError")
    /\ DOMAIN mapping # {}

(***************************************************************************)
(* C15.  FAILED is terminal: filter_by(b) for a progress flag b does not   *)
(* report a requirement whose status holds FAILED.                         *)
(***************************************************************************)
C15_FailedExcluded ==
    \A b \in {FOUND, RETRIEVED, BUILT, CHECKED, INSTALLED} :
        \A k \in filter_by(mapping, b) : FAILED \notin Bits(mapping[k].status)

(***************************************************************************)
(* C14.  For every spelling r of a filed requirement,                      *)
(* is_primary_requirement(r) returns true if and only if every element of  *)
(* the back-link list that the registry holds for r now is the root        *)
(* sentinel, whatever the order in which the parents were filed.           *)
(***************************************************************************)
C14_PrimaryRederived ==
    \A s \in ReqStrings :
        format_requirement(s) \in DOMAIN mapping
        => is_primary_requirement(mapping, s)
             = [ret |-> <<Primary(format_requirement(s))>>, err |-> "none"]

(***************************************************************************)
(* The download service: locators.                                         *)
(***************************************************************************)
\* The version dictionary that a locator's get_project(name) returns; a
\* locator is <<base_url, name -> {version -> distribution}>>, and a name
\* that the remote does not know gives nothing.
get_project(locator, name) ==
    IF name \in DOMAIN locator[2] THEN locator[2][name] ELSE << >>

\* The greatest element of a non-empty set of versions under the scheme's
\* key: slist[-1] of the sorted list.
Newest(S) == CHOOSE v \in S : \A w \in S : ~VersionLess(v, w)

\* find_packages: `requirement` is the requirement string of the parsed
\* requirement; the result is a distribution, or the empty dictionary.
find_packages(locator, requirement, versions) ==
    LET slist == { v \in DOMAIN versions : Match(requirement, v) }
    IN  IF DOMAIN versions = {} \/ slist = {} THEN << >>
        ELSE versions[Newest(slist)]

\* AggregatingLocator.locate: the return statement is inside the loop, so
\* the loop ends in its first round; without locators the result is None.
\* The body does not read `prereleases`.
locate(locs, requirement, prereleases) ==
    IF Len(locs) = 0 THEN None
    ELSE LET locator == locs[1]
             versions == get_project(locator, ParsedName(requirement))
         IN  find_packages(locator, requirement, versions)

\* "http://<userinfo>@<host>:<port><path>?<query>", each part optional
Http(userinfo, host, port, path, query) ==
    <<"http", <<userinfo, host, port>>, path, <<FALSE, "">>, query, <<FALSE, "">> >>

\* The base URLs of the locators of a configuration.
LocatorUrls ==
    { Http("", "curd", "", << >>, <<FALSE, "">>),
      Http("", "pypi", "", <<"simple">>, <<FALSE, "">>) }

\* "foo-<version>.tar.gz"
FileName(v) ==
    IF v = <<2, 0>> THEN "foo-2.0.tar.gz"
    ELSE IF v = <<10, 0>> THEN "foo-10.0.tar.gz"
    ELSE "foo-10.0a1.tar.gz"

\* "<base_url>/foo-<version>.tar.gz"
Artifact(base_url, v) ==
    <<base_url[1], base_url[2], Append(base_url[3], FileName(v)),
      base_url[4], base_url[5], base_url[6]>>

\* The distribution of "foo" that a locator offers for a version.
Distribution(base_url, v) == <<"foo", v, Artifact(base_url, v), base_url>>

\* A locator whose remote knows the versions S of "foo".
Locator(base_url, S) ==
    <<base_url, "foo" :> [v \in S |-> Distribution(base_url, v)]>>

LocatorChoices ==
    { Locator(u, S) : u \in LocatorUrls, S \in SUBSET Versions }

\* The lists of at most n elements of S.
RECURSIVE ListsUpTo(_, _)
ListsUpTo(S, n) ==
    IF n = 0 THEN { << >> }
    ELSE ListsUpTo(S, n - 1)
         \cup { Append(l, x) : l \in { k \in ListsUpTo(S, n - 1) : Len(k) = n - 1 },
                               x \in S }

\* "foo (>= 2.0)", "foo (<= 10.0)", "foo (>= 10.0)"
LocateReqs == { r \in ReqStrings : ParsedName(r) = "foo" }

InitLocate ==
    /\ InitRegistry
    /\ locators \in ListsUpTo(LocatorChoices, MaxLocators)
    /\ server = << >>
    /\ outcome = [op |-> "init", err |-> "none"]

Locate(requirement) ==
    /\ outcome' = [op |-> "locate", err |-> "none",
                   requirement |-> requirement,
                   ret |-> locate(locators, requirement, TRUE)]
    /\ UNCHANGED <<reg, locators, server>>

NextLocate == \E requirement \in LocateReqs : Locate(requirement)

SpecLocate == InitLocate /\ [][NextLocate]_vars

\* The best match of the first locator of the list, from the i-th on, that
\* has a match; None when no locator has one.
RECURSIVE FirstMatch(_, _, _)
FirstMatch(locs, requirement, i) ==
    IF i > Len(locs) THEN None
    ELSE LET matches == { v \in DOMAIN get_project(locs[i], ParsedName(requirement)) :
                            Match(requirement, v) }
         IN  IF matches = {} THEN FirstMatch(locs, requirement, i + 1)
             ELSE get_project(locs[i], ParsedName(requirement))[Newest(matches)]

(***************************************************************************)
(* C16.  locate returns the best match of the first locator, in the        *)
(* configured order, that has a match for the requirement, and nothing     *)
(* only when no locator has one.                                           *)
(***************************************************************************)
C16_FirstNonEmpty ==
    outcome.op = "locate"
    => outcome.ret = FirstMatch(locators, outcome.requirement, 1)

(***************************************************************************)
(* The download service: URLs.                                             *)
(***************************************************************************)
\* A params, query or fragment part that is not written at all.
NotWritten == <<FALSE, "">>

\* compat.urlparse(url): the delimiters go, the texts of the parts stay.
urlparse(url) == <<url[1], url[2], url[3], url[4][2], url[5][2], url[6][2]>>

\* urlunparse(parts): an empty part is written without its delimiter.
urlunparse(parts) ==
    <<parts[1], parts[2], parts[3],
      <<parts[4] # "", parts[4]>>, <<parts[5] # "", parts[5]>>,
      <<parts[6] # "", parts[6]>> >>

\* ParseResult.geturl()
geturl(parsed) == urlunparse(parsed)

\* ParseResult.hostname and ParseResult.port; the hosts of this model are
\* written in lower case and the ports without leading zeros.
hostname(parsed) == parsed[2][2]
port(parsed) == parsed[2][3]

\* urljoin(url, location) for a location that is a full URL or a path that
\* starts at the root.
urljoin(url, location) ==
    IF location[1] # "" THEN urlunparse(urlparse(location))
    ELSE urlunparse(<<urlparse(url)[1], urlparse(url)[2]>>
                    \o SubSeq(urlparse(location), 3, 6))

\* Downloader.update_url_credentials
update_url_credentials(base_url, other_url) ==
    LET base == urlparse(base_url)
        other == urlparse(other_url)
    IN  IF hostname(base) # hostname(other) \/ port(base) # port(other)
        THEN geturl(other)
        ELSE urlunparse(<<other[1], base[2], other[3], other[4], other[5],
                          other[6]>>)

(***************************************************************************)
(* The download service: the HTTP retriever.                               *)
(***************************************************************************)
\* The redirects that PoolManager.request follows when the caller passes
\* no `retries`.
DefaultRetries == 3

\* What the remote answers to a GET of the URL; a page it does not have is
\* 404 Not Found.
Respond(srv, url) ==
    IF <<url[2][2], url[3]>> \in DOMAIN srv THEN srv[<<url[2][2], url[3]>>]
    ELSE <<404, None, None>>

\* HTTPResponse.get_redirect_location(): the Location header of a redirect,
\* None for any other response.
get_redirect_location(response) ==
    IF response[1] \in {301, 302, 303, 307} THEN response[2] ELSE None

\* PoolManager.request('GET', url): the pool follows the redirects itself,
\* one request each, counting `retries` down, and raises MaxRetryError when
\* the count is used up.
RECURSIVE urlopen(_, _, _, _)
urlopen(srv, url, retries, requests) ==
    IF url[1] \notin {"http", "https"}
    THEN \* the pool manager has no connection pool class for the scheme
         [response |-> None, requests |-> requests, err |-> "KeyError"]
    ELSE IF retries < 0
    THEN [response |-> None, requests |-> requests, err |-> "MaxRetryError"]
    ELSE LET response == Respond(srv, url)
             redirect_location == get_redirect_location(response)
         IN  IF redirect_location = None
             THEN [response |-> response, requests |-> Append(requests, url),
                   err |-> "none"]
             ELSE urlopen(srv, urljoin(url, redirect_location), retries - 1,
                          Append(requests, url))

\* Pool.retrieve: the response, the URL returned with it, the requests that
\* were issued and the exception raised.
retrieve(srv, url) ==
    LET got == urlopen(srv, url, DefaultRetries, << >>)
    IN  IF got.err # "none"
        THEN [response |-> None, final_url |-> None,
              requests |-> got.requests, err |-> got.err]
        ELSE [response |-> got.response,
              final_url |-> IF get_redirect_location(got.response) # None
                            THEN get_redirect_location(got.response)
                            ELSE url,
              requests |-> got.requests, err |-> "none"]

\* The status codes that httplib.responses of Python 2 has a phrase for.
httplib_responses ==
    [status \in {100, 101} \cup (200..206) \cup (300..307) \cup (400..417)
                \cup (500..505) |-> <<"reason", status>>]

\* re.findall(r'filename=([^;]+)', header): the text after "filename=",
\* with the quotes that are written around the name.
findall_filename(header) ==
    IF header = None THEN << >> ELSE << <<header[2], header[3], header[2]>> >>

\* Downloader.download: the URL handed to the retriever, the requests
\* issued, the index.from_data calls made, the exception raised and its
\* message.
download(srv, distribution) ==
    LET url == distribution[3]
        final_url == IF distribution[4] # None
                     THEN update_url_credentials(distribution[4], url)
                     ELSE url
        got == retrieve(srv, final_url)
        file_name == findall_filename(got.response[3])
    IN  IF got.err # "none"
        THEN [retrieved |-> final_url, requests |-> got.requests,
              response |-> None, stored |-> << >>, err |-> got.err,
              message |-> << >>]
        ELSE IF got.response[1] # 200
        THEN IF got.response[1] \in DOMAIN httplib_responses
             THEN [retrieved |-> final_url, requests |-> got.requests,
                   response |-> got.response, stored |-> << >>,
                   err |-> "ReportableError",
                   message |-> <<url, got.response[1],
                                 httplib_responses[got.response[1]]>>]
             ELSE [retrieved |-> final_url, requests |-> got.requests,
                   response |-> got.response, stored |-> << >>,
                   err |-> "KeyError", message |-> <<got.response[1]>>]
        ELSE [retrieved |-> final_url, requests |-> got.requests,
              response |-> got.response,
              stored |-> << <<IF Len(file_name) > 0 THEN file_name[1] ELSE url,
                              "body">> >>,
              err |-> "none", message |-> << >>]

(***************************************************************************)
(* The remote pages and the calls made to the download service.            *)
(***************************************************************************)
\* "http://srv/a", "http://srv/b", "http://other/c"
PageUrls ==
    { Http("", "srv", "", <<"a">>, NotWritten),
      Http("", "srv", "", <<"b">>, NotWritten),
      Http("", "other", "", <<"c">>, NotWritten) }

Pages == { <<u[2][2], u[3]>> : u \in PageUrls }

\* The Location headers: the pages' URLs and the paths "/a" and "/b".
Locations ==
    PageUrls
    \cup { <<"", <<"", "", "">>, path, NotWritten, NotWritten, NotWritten>> :
             path \in { <<"a">>, <<"b">> } }

\* The answers of a page: the artifact, with or without a
\* Content-Disposition header, an error or a redirect.
Responses ==
    { <<200, None, None>>, <<200, None, <<"attachment", "", "pkg.tgz">> >>,
      <<200, None, <<"attachment", "\"", "pkg.tgz">> >>,
      <<404, None, None>>, <<429, None, None>> }
    \cup { <<302, location, None>> : location \in Locations }

\* The base URLs of locators: "http://u:p@srv/simple", "http://srv/simple"
\* and "http://u:p@srv:8080/simple".
BaseUrls ==
    { Http("u:p", "srv", "", <<"simple">>, NotWritten),
      Http("", "srv", "", <<"simple">>, NotWritten),
      Http("u:p", "srv", "8080", <<"simple">>, NotWritten) }

\* The URLs of artifacts: "http://srv/a", "http://x:y@srv/a?q=1",
\* "http://srv:8080/a", "http://other/c" and "http://other/c?".
ArtifactUrls ==
    { Http("", "srv", "", <<"a">>, NotWritten),
      Http("x:y", "srv", "", <<"a">>, <<TRUE, "q=1">>),
      Http("", "srv", "8080", <<"a">>, NotWritten),
      Http("", "other", "", <<"c">>, NotWritten),
      Http("", "other", "", <<"c">>, <<TRUE, "">>) }

\* The distributions handed to download: found by a locator, or made from a
\* link and without a locator.
Distributions ==
    { <<"foo", <<2, 0>>, url, base_url>> :
        url \in ArtifactUrls, base_url \in BaseUrls \cup {None} }

\* The links that are not HTTP links: "git+ssh://github/curdling.git",
\* "hg+http://srv/a", "svn+http://srv/a" and "ftp://srv/a".
OtherLinks ==
    { <<"git+ssh", <<"", "github", "">>, <<"curdling.git">>, NotWritten,
        NotWritten, NotWritten>>,
      <<"hg+http", <<"", "srv", "">>, <<"a">>, NotWritten, NotWritten, NotWritten>>,
      <<"svn+http", <<"", "srv", "">>, <<"a">>, NotWritten, NotWritten, NotWritten>>,
      <<"ftp", <<"", "srv", "">>, <<"a">>, NotWritten, NotWritten, NotWritten>> }

\* The distributions that handle makes from requirements that are links.
LinkDistributions == { <<"", None, url, None>> : url \in OtherLinks }

InitDownloader ==
    /\ InitRegistry
    /\ locators = << >>
    /\ server \in [Pages -> Responses]
    /\ outcome = [op |-> "init", err |-> "none"]

Retrieve(url) ==
    /\ outcome' = [op |-> "retrieve", err |-> retrieve(server, url).err,
                   url |-> url,
                   requests |-> retrieve(server, url).requests,
                   response |-> retrieve(server, url).response,
                   final_url |-> retrieve(server, url).final_url]
    /\ UNCHANGED <<reg, locators, server>>

UpdateUrlCredentials(base_url, other_url) ==
    /\ outcome' = [op |-> "update_url_credentials", err |-> "none",
                   base_url |-> base_url, other_url |-> other_url,
                   ret |-> update_url_credentials(base_url, other_url)]
    /\ UNCHANGED <<reg, locators, server>>

Download(distribution) ==
    /\ outcome' = [op |-> "download", err |-> download(server, distribution).err,
                   distribution |-> distribution,
                   retrieved |-> download(server, distribution).retrieved,
                   requests |-> download(server, distribution).requests,
                   response |-> download(server, distribution).response,
                   stored |-> download(server, distribution).stored,
                   message |-> download(server, distribution).message]
    /\ UNCHANGED <<reg, locators, server>>

NextDownloader ==
    \/ \E url \in PageUrls : Retrieve(url)
    \/ \E base_url \in BaseUrls, other_url \in ArtifactUrls :
          UpdateUrlCredentials(base_url, other_url)
    \/ \E distribution \in Distributions \cup LinkDistributions :
          Download(distribution)

SpecDownloader == InitDownloader /\ [][NextDownloader]_vars

(***************************************************************************)
(* C17.  Against a remote that answers every request of a retrieval with a *)
(* redirect, the retriever issues exactly 20 requests and raises           *)
(* TooManyRedirects.                                                       *)
(***************************************************************************)
C17_TwentyRequests ==
    (/\ outcome.op = "retrieve"
     /\ \A i \in 1..Len(outcome.requests) :
           get_redirect_location(Respond(server, outcome.requests[i])) # None)
    => /\ Len(outcome.requests) = 20
       /\ outcome.err = "TooManyRedirects"

\* The URL that a Location header names when it came with the answer to a
\* request of the URL u.
Resolved(u, location) ==
    IF location[1] # "" THEN location
    ELSE <<u[1], u[2], location[3], location[4], location[5], location[6]>>

(***************************************************************************)
(* C18.  The URL that the retriever returns with the response is the URL   *)
(* of the last request issued: the requested URL when there was no         *)
(* redirect, and otherwise the last Location, each Location resolved       *)
(* against the URL of the request that it answered.                        *)
(***************************************************************************)
C18_FinalUrl ==
    (outcome.op = "retrieve" /\ outcome.err = "none")
    => /\ outcome.requests[1] = outcome.url
       /\ \A i \in 2..Len(outcome.requests) :
             outcome.requests[i]
               = Resolved(outcome.requests[i - 1],
                          Respond(server, outcome.requests[i - 1])[2])
       /\ outcome.final_url = outcome.requests[Len(outcome.requests)]

(***************************************************************************)
(* C19.  update_url_credentials(base, url) returns url as it is when base  *)
(* and url differ in host or in port; otherwise it returns url with the    *)
(* userinfo of base in place of its own and with its scheme, host, port,   *)
(* path, params, query and fragment kept.                                  *)
(***************************************************************************)
C19_CredentialsScoped ==
    outcome.op = "update_url_credentials"
    => LET base == outcome.base_url
           url == outcome.other_url
           ret == outcome.ret
       IN  IF base[2][2] # url[2][2] \/ base[2][3] # url[2][3]
           THEN ret = url
           ELSE /\ ret[1] = url[1]
                /\ ret[2] = <<base[2][1], url[2][2], url[2][3]>>
                /\ ret[3] = url[3]
                /\ ret[4][2] = url[4][2]
                /\ ret[5][2] = url[5][2]
                /\ ret[6][2] = url[6][2]

(***************************************************************************)
(* C20.  When the response to an artifact download has a status other than *)
(* 200, download raises ReportableError with the status code and the       *)
(* reason phrase and calls index.from_data not at all; index.from_data is  *)
(* called only after a 200 response.                                       *)
(***************************************************************************)
C20_ReportableOnError ==
    (outcome.op = "download" /\ outcome.response # None)
    => /\ outcome.response[1] # 200
          => /\ outcome.err = "ReportableError"
             /\ Len(outcome.message) = 3
             /\ outcome.message[2] = outcome.response[1]
             /\ outcome.stored = << >>
       /\ outcome.stored # << >> => outcome.response[1] = 200

\* The last segment of the path of a URL.
Basename(url) == IF Len(url[3]) = 0 THEN "" ELSE url[3][Len(url[3])]

(***************************************************************************)
(* C21.  The file name that an HTTP download hands to the artifact index   *)
(* is the filename of the Content-Disposition header without the quotes    *)
(* around it when the header has one, and otherwise the name taken from    *)
(* the URL of the last request, the one reached after the redirects.       *)
(***************************************************************************)
C21_FilenamePriority ==
    (outcome.op = "download" /\ outcome.err = "none")
    => LET header == outcome.response[3]
           file_name == outcome.stored[1][1]
           final_url == outcome.requests[Len(outcome.requests)]
       IN  /\ Len(outcome.stored) = 1
           /\ IF header # None THEN file_name = <<"", header[3], "">>
              ELSE IF Basename(final_url) # ""
              THEN Len(file_name) = 6 /\ Basename(file_name) = Basename(final_url)
              ELSE file_name = outcome.distribution[3]

\* "git+ssh://..." is handled by git with "ssh://...", and so on.
VcsOf(scheme) ==
    CASE scheme = "git+ssh" -> <<"git", "ssh">>
      [] scheme = "hg+http" -> <<"hg", "http">>
      [] scheme = "svn+http" -> <<"svn", "http">>
      [] OTHER -> << >>

(***************************************************************************)
(* C25.  download hands http and https URLs to the HTTP retriever and      *)
(* git+, hg+ and svn+ URLs to the handler of that VCS, with the prefix     *)
(* taken off the URL; for any other URL it raises UnknownURL and calls no  *)
(* handler.                                                                *)
(***************************************************************************)
C25_SchemeDispatch ==
    outcome.op = "download"
    => LET scheme == outcome.distribution[3][1]
       IN  IF scheme \in {"http", "https"}
           THEN outcome.retrieved[1] = scheme
           ELSE IF VcsOf(scheme) # << >>
           THEN /\ outcome.retrieved = << >>
                /\ outcome.err # "UnknownURL"
           ELSE /\ outcome.retrieved = << >>
                /\ outcome.err = "UnknownURL"

(***************************************************************************)
(* C27.  When the package has a primary requirement, the requirement that  *)
(* best_version returns with the version is the source of that version: a  *)
(* primary requirement of the package whose wheel slot holds the returned  *)
(* version, in whatever order the filed requirements are iterated.         *)
(***************************************************************************)
C27_SourceRequirement ==
    \A name \in NameStrings : \A requirements \in Orders(Filed(name)) :
        LET result == best_version(mapping, name, requirements)
        IN  ((\E r \in Filed(name) : Primary(r)) /\ result.err = "none")
            => /\ result.ret[2] \in Filed(name)
               /\ Primary(result.ret[2])
               /\ mapping[result.ret[2]].data["wheel"] # None
               /\ mapping[result.ret[2]].data["wheel"][2] = result.ret[1]

(***************************************************************************)
(* C28.  available_versions never fails: in every state of the registry,   *)
(* also when a filed requirement has no wheel yet, it returns a list.      *)
(***************************************************************************)
C28_AvailableVersionsTotal ==
    \A name \in NameStrings : available_versions(mapping, name).err = "none"

(***************************************************************************)
(* Two workers that call add_status and file_requirement in parallel.      *)
(* add_status reads the status (get_status) and then writes it             *)
(* (set_status); file_requirement looks the entry up (line 77), inserts a  *)
(* new one when it found none (line 81) and appends the back-link to the   *)
(* entry it holds (line 82).  Nothing locks the mapping, so another thread *)
(* may run between these steps.  `hist` keeps the filings that returned.   *)
(***************************************************************************)
\* A worker's call: where it is, the call and its arguments, the value it
\* holds (the status to write, or which entry it holds), the exception.
Writer(pc, op, req, arg, tmp, err) ==
    [pc |-> pc, op |-> op, req |-> req, arg |-> arg, tmp |-> tmp, err |-> err]

\* Line 88 of add_status: get_status(requirement) | status is evaluated.
add_status_read(m, s, status) ==
    IF get_status(m, s).err # "none"
    THEN Writer("done", "add_status", format_requirement(s), status, 0,
                get_status(m, s).err)
    ELSE Writer("set", "add_status", format_requirement(s), status,
                BitOr(get_status(m, s).ret, status), "none")

\* Lines 76-80 of file_requirement: the entry is looked up, and made when
\* the mapping has none.
file_requirement_get(m, s, dependency_of) ==
    LET requirement == format_requirement(s)
    IN  IF requirement \in DOMAIN m
        THEN Writer("append", "file_requirement", requirement, dependency_of,
                    "mapped", "none")
        ELSE Writer("insert", "file_requirement", requirement, dependency_of,
                    "new", "none")

\* Line 81 of file_requirement: the new entry takes the place of whatever
\* the mapping holds for the requirement.
file_requirement_insert(m, call) ==
    [x \in DOMAIN m \cup {call.req} |->
        IF x = call.req THEN requirement_structure ELSE m[x]]

\* Line 82 of file_requirement: the back-link goes to the entry that the
\* worker holds, which is in the mapping unless it has been replaced.
file_requirement_append(m, call) ==
    IF call.tmp = "mapped"
    THEN [m EXCEPT ![call.req].dependency_of = Append(@, call.arg)]
    ELSE m

WriterRead(w, s, status) ==
    /\ wk[w].pc \in {"idle", "done"}
    /\ wk' = [wk EXCEPT ![w] = add_status_read(mapping, s, status)]
    /\ UNCHANGED <<mapping, last, hist, locators, server, outcome>>

WriterSet(w) ==
    /\ wk[w].pc = "set"
    /\ mapping' = set_status(mapping, wk[w].req, wk[w].tmp).mapping
    /\ wk' = [wk EXCEPT ![w].pc = "done"]
    /\ UNCHANGED <<last, hist, locators, server, outcome>>

WriterGet(w, s, dependency_of) ==
    /\ wk[w].pc \in {"idle", "done"}
    /\ Len(hist) + Cardinality({ u \in Workers : wk[u].pc \in {"insert", "append"} })
          < MaxFilings
    /\ wk' = [wk EXCEPT ![w] = file_requirement_get(mapping, s, dependency_of)]
    /\ UNCHANGED <<mapping, last, hist, locators, server, outcome>>

WriterInsert(w) ==
    /\ wk[w].pc = "insert"
    /\ mapping' = file_requirement_insert(mapping, wk[w])
    /\ wk' = [u \in Workers |->
                IF u = w THEN [wk[w] EXCEPT !.pc = "append", !.tmp = "mapped"]
                ELSE IF wk[u].pc = "append" /\ wk[u].req = wk[w].req
                THEN [wk[u] EXCEPT !.tmp = "replaced"]
                ELSE wk[u]]
    /\ UNCHANGED <<last, hist, locators, server, outcome>>

WriterAppend(w) ==
    /\ wk[w].pc = "append"
    /\ mapping' = file_requirement_append(mapping, wk[w])
    /\ wk' = [wk EXCEPT ![w].pc = "done"]
    /\ hist' = Append(hist, <<wk[w].req, wk[w].arg>>)
    /\ UNCHANGED <<last, locators, server, outcome>>

NextWriters ==
    \/ \E w \in Workers, s \in RaceReqs, status \in {FOUND, RETRIEVED} :
          WriterRead(w, s, status)
    \/ \E w \in Workers : WriterSet(w)
    \/ \E w \in Workers, s \in RaceReqs, parent \in Parents : WriterGet(w, s, parent)
    \/ \E w \in Workers : WriterInsert(w)
    \/ \E w \in Workers : WriterAppend(w)

SpecWriters == Init /\ [][NextWriters]_vars

\* The filings of requirement r that returned.
Returned(r) == { i \in 1..Len(hist) : hist[i][1] = r }

(***************************************************************************)
(* C26.  The mutating operations are serialized, so that no update of two  *)
(* workers that call in parallel is lost: the bits of an add_status that   *)
(* returned are set in the status of the requirement, and the entry of a   *)
(* requirement carries the back-link of every filing that returned.        *)
(***************************************************************************)
C26_NoLostUpdate ==
    /\ \A w \in Workers :
          (wk[w].pc = "done" /\ wk[w].op = "add_status" /\ wk[w].err = "none")
          => Bits(wk[w].arg) \subseteq Bits(mapping[wk[w].req].status)
    /\ \A r \in DOMAIN mapping :
          Len(mapping[r].dependency_of) = Cardinality(Returned(r))
    /\ \A i \in 1..Len(hist) : hist[i][1] \in DOMAIN mapping

(***************************************************************************)
(* Downloader.handle: the finder.  A requirement is looked up under its    *)
(* spelling with hyphens and under its spelling with underscores, and the  *)
(* distribution that is found is downloaded.                               *)
(***************************************************************************)
\* name.replace(old, new) on the names of the model: "my_pkg" and "my-pkg"
\* are the two spellings of one name, "foo" has neither character.
replace(name, old, new) ==
    CASE name = "my_pkg" /\ old = "_" /\ new = "-" -> "my-pkg"
      [] name = "my-pkg" /\ old = "-" /\ new = "_" -> "my_pkg"
      [] OTHER -> name

\* util.parse_requirement(requirement).is_link: the requirement is a URL.
is_link(requirement) == Len(requirement) = 6

\* handle that gives up when the first spelling is not found.
handle_one_spelling(locs, srv, requirement, prereleases) ==
    LET option == <<replace(requirement[1], "_", "-"), requirement[2]>>
        found == locate(locs, option, prereleases)
        got == download(srv, found)
    IN  IF found = None
        THEN [calls |-> <<option>>, found |-> None, err |-> "ReportableError",
              raised_by |-> "handle", stored |-> << >>]
        ELSE [calls |-> <<option>>, found |-> found, err |-> got.err,
              raised_by |-> IF got.err = "none" THEN "" ELSE "download",
              stored |-> got.stored]

\* Downloader.handle: the locate calls made, the distribution found, the
\* exception raised and by what, and what the index was given.
handle(locs, srv, requirement, prereleases) ==
    LET options == IF is_link(requirement) THEN << >>
                   ELSE << <<replace(requirement[1], "_", "-"), requirement[2]>>,
                           <<replace(requirement[1], "-", "_"), requirement[2]>> >>
        first == locate(locs, options[1], prereleases)
        second == locate(locs, options[2], prereleases)
        calls == IF is_link(requirement) THEN << >>
                 ELSE IF first # None THEN <<options[1]>>
                 ELSE options
        found == IF is_link(requirement) THEN <<"", None, requirement, None>>
                 ELSE IF first # None THEN first
                 ELSE second
        got == download(srv, found)
    IN  IF found = None
        THEN [calls |-> calls, found |-> None, err |-> "ReportableError",
              raised_by |-> "handle", stored |-> << >>]
        ELSE [calls |-> calls, found |-> found, err |-> got.err,
              raised_by |-> IF got.err = "none" THEN "" ELSE "download",
              stored |-> got.stored]

\* The versions that a remote has: "2.0" and the pre-release "10.0a1".
FinderVersions == { <<2, 0>>, <<10, 0, Alpha, 1>> }

\* A locator whose remote has all the versions of the names in S.
FinderLocator(base_url, S) ==
    <<base_url,
      [name \in S |-> [v \in FinderVersions |->
                         <<name, v, Artifact(base_url, v), base_url>>]]>>

FinderLocators ==
    { FinderLocator(u, S) : u \in LocatorUrls, S \in SUBSET {"my-pkg", "my_pkg"} }

\* The pages of the artifacts; a remote has them all or has none.
FinderPages ==
    { <<u[2][2], Artifact(u, v)[3]>> : u \in LocatorUrls, v \in FinderVersions }

\* "my_pkg", "my-pkg", "my_pkg (>= 2.0)", "my-pkg (<= 2.0)", "foo" and the
\* links "http://srv/a" and "git+ssh://github/curdling.git"
FinderReqs ==
    { <<"my_pkg", << >> >>, <<"my-pkg", << >> >>, Req("my_pkg", ">=", <<2, 0>>),
      Req("my-pkg", "<=", <<2, 0>>), <<"foo", << >> >>,
      Http("", "srv", "", <<"a">>, NotWritten),
      <<"git+ssh", <<"", "github", "">>, <<"curdling.git">>, NotWritten,
        NotWritten, NotWritten>> }

InitFinder ==
    /\ InitRegistry
    /\ locators \in ListsUpTo(FinderLocators, MaxLocators)
    /\ server \in { [page \in FinderPages |-> response] :
                       response \in { <<200, None, None>>, <<404, None, None>> } }
    /\ outcome = [op |-> "init", err |-> "none"]

\* handle, with the `prereleases` setting of the configuration.
Handle(requirement, prereleases) ==
    /\ LET call == handle(locators, server, requirement, prereleases)
       IN  outcome' = [op |-> "handle", err |-> call.err,
                       requirement |-> requirement, prereleases |-> prereleases,
                       calls |-> call.calls, found |-> call.found,
                       raised_by |-> call.raised_by, stored |-> call.stored]
    /\ UNCHANGED <<reg, locators, server>>

NextFinder ==
    \E requirement \in FinderReqs, prereleases \in BOOLEAN :
        Handle(requirement, prereleases)

SpecFinder == InitFinder /\ [][NextFinder]_vars

\* The two spellings of a requirement.
Hyphens(requirement) == <<replace(requirement[1], "_", "-"), requirement[2]>>
Underscores(requirement) == <<replace(requirement[1], "-", "_"), requirement[2]>>

(***************************************************************************)
(* C22.  For a requirement that is not a link the finder calls locate      *)
(* with the spelling with hyphens and, only when that returned nothing,    *)
(* with the spelling with underscores; it uses the first result that is    *)
(* not empty, makes at most two locate calls, and raises the "not found"   *)
(* ReportableError exactly when both spellings return nothing.             *)
(***************************************************************************)
C22_SpellingFallback ==
    (outcome.op = "handle" /\ ~is_link(outcome.requirement))
    => LET hyphens == locate(locators, Hyphens(outcome.requirement),
                             outcome.prereleases)
           underscores == locate(locators, Underscores(outcome.requirement),
                                 outcome.prereleases)
       IN  /\ Len(outcome.calls) \in {1, 2}
           /\ outcome.calls[1] = Hyphens(outcome.requirement)
           /\ Len(outcome.calls) = 2 <=> hyphens = None
           /\ Len(outcome.calls) = 2
              => outcome.calls[2] = Underscores(outcome.requirement)
           /\ outcome.found = IF hyphens # None THEN hyphens ELSE underscores
           /\ (outcome.err = "ReportableError" /\ outcome.raised_by = "handle")
              <=> (hyphens = None /\ underscores = None)

\* The spelling with hyphens was not found and the one with underscores was.
C22_Witness ==
    /\ outcome.op = "handle"
    /\ ~is_link(outcome.requirement)
    /\ Len(outcome.calls) = 2
    /\ outcome.calls[1] # outcome.calls[2]
    /\ outcome.found # None
    /\ outcome.found[1] = "my_pkg"

\* The version is a pre-release.
IsPrerelease(v) == \E i \in 1..Len(v) : v[i] = Alpha

(***************************************************************************)
(* C24.  When the configuration sets prereleases to false, no pre-release  *)
(* version is selected by locate, even if it satisfies the constraints of  *)
(* the requirement.                                                        *)
(***************************************************************************)
C24_NoPrereleases ==
    (/\ outcome.op = "handle"
     /\ ~is_link(outcome.requirement)
     /\ ~outcome.prereleases
     /\ outcome.found # None)
    => ~IsPrerelease(outcome.found[2])

(***************************************************************************)
(* The locator of a curdling server.  In this part a locator is            *)
(* <<class, base_url, requirements_not_found>>, and the answer of an API   *)
(* page carries the decoded JSON body as its fourth part: a list of        *)
(* <<name, version, urls>>.                                                *)
(***************************************************************************)
\* Most names that the locators of a configuration record as not found.
MaxNotFound == 2

\* urljoin(url, path) for a relative path: it takes the place of the last
\* segment of the path of url.
urljoin_path(url, path) ==
    urlunparse(<<urlparse(url)[1], urlparse(url)[2],
                 (IF Len(url[3]) = 0 THEN << >>
                  ELSE SubSeq(url[3], 1, Len(url[3]) - 1)) \o path,
                 "", "", "">>)

\* CurdlingLocator._get_distribution
curdling_get_distribution(locator, version) ==
    <<version[1], version[2], version[3][1], locator[2]>>

\* The dictionary {v['version']: self._get_distribution(v) for v in data}:
\* a later element of data takes the place of an earlier one.
RECURSIVE Catalog(_, _)
Catalog(locator, data) ==
    IF Len(data) = 0 THEN << >>
    ELSE LET last_one == data[Len(data)]
         IN  (last_one[2] :> curdling_get_distribution(locator, last_one))
             @@ Catalog(locator, SubSeq(data, 1, Len(data) - 1))

\* _get_project that does not record the names it did not find.
curdling_get_project_silent(srv, locator, name) ==
    LET got == retrieve(srv, urljoin_path(locator[2], <<"api", name>>))
    IN  IF got.err = "none" /\ got.response[1] = 200
        THEN [ret |-> Catalog(locator, got.response[4]), locator |-> locator,
              response |-> got.response, err |-> got.err]
        ELSE [ret |-> None, locator |-> locator, response |-> got.response,
              err |-> IF got.err = "MaxRetryError" THEN "none" ELSE got.err]

\* CurdlingLocator._get_project: the catalog returned, the locator after
\* the call, the response it got and the exception raised.
curdling_get_project(srv, locator, name) ==
    LET url == urljoin_path(locator[2], <<"api", name>>)
        got == retrieve(srv, url)
    IN  IF got.err = "MaxRetryError"
        THEN [ret |-> None, locator |-> locator, response |-> None,
              err |-> "none"]
        ELSE IF got.err # "none"
        THEN [ret |-> None, locator |-> locator, response |-> None,
              err |-> got.err]
        ELSE IF got.response[1] = 200
        THEN [ret |-> Catalog(locator, got.response[4]), locator |-> locator,
              response |-> got.response, err |-> "none"]
        ELSE [ret |-> None,
              locator |-> <<locator[1], locator[2], Append(locator[3], name)>>,
              response |-> got.response, err |-> "none"]

\* Downloader.get_servers_to_update: the dictionary of failures, filled
\* from the i-th locator on.
RECURSIVE get_servers_to_update(_, _, _)
get_servers_to_update(locs, i, failures) ==
    IF i > Len(locs) THEN failures
    ELSE get_servers_to_update(locs, i + 1,
            IF locs[i][1] = "CurdlingLocator" /\ Len(locs[i][3]) > 0
            THEN [base_url \in DOMAIN failures \cup {locs[i][2]} |->
                    IF base_url = locs[i][2] THEN locs[i][3]
                    ELSE failures[base_url]]
            ELSE failures)

\* The locators of a configuration, as get_locator makes them:
\* "http://curd", "http://curd2/" and the index "http://pypi/simple".
ApiLocators ==
    { <<"CurdlingLocator", Http("", "curd", "", << >>, NotWritten), << >> >>,
      <<"CurdlingLocator", Http("", "curd2", "", <<"">>, NotWritten), << >> >>,
      <<"PyPiLocator", Http("", "pypi", "", <<"simple">>, NotWritten), << >> >> }

\* The API pages of the remotes; "http://curd2/api/bar" does not exist.
ApiPages ==
    { <<"curd", <<"api", "foo">> >>, <<"curd", <<"api", "bar">> >>,
      <<"curd2", <<"api", "foo">> >> }

\* The versions 2.0 and 10.0 of a name, as the API lists them.
ApiData(host, name) ==
    << <<name, <<2, 0>>, << Http("", host, "", <<FileName(<<2, 0>>)>>, NotWritten) >> >>,
       <<name, <<10, 0>>, << Http("", host, "", <<FileName(<<10, 0>>)>>, NotWritten) >> >> >>

\* The answers of an API page: the versions, Not Found, or a redirect to
\* itself.
ApiResponses(page) ==
    { <<200, None, None, ApiData(page[1], page[2][2])>>, <<404, None, None>>,
      <<302, Http("", page[1], "", page[2], NotWritten), None>> }

\* No element of the list is repeated.
Distinct(l) == \A i, j \in 1..Len(l) : l[i] = l[j] => i = j

\* The names recorded as not found by all the locators together.
RECURSIVE NotFound(_)
NotFound(locs) ==
    IF Len(locs) = 0 THEN 0 ELSE Len(locs[1][3]) + NotFound(Tail(locs))

InitApi ==
    /\ InitRegistry
    /\ locators \in { l \in ListsUpTo(ApiLocators, MaxLocators) : Distinct(l) }
    /\ server \in { srv \in [ApiPages -> UNION { ApiResponses(page) : page \in ApiPages }] :
                      \A page \in ApiPages : srv[page] \in ApiResponses(page) }
    /\ outcome = [op |-> "init", err |-> "none"]

\* get_project(name) of the i-th locator, a CurdlingLocator.
GetProject(i, name) ==
    /\ locators[i][1] = "CurdlingLocator"
    /\ NotFound(locators) < MaxNotFound
    /\ LET call == curdling_get_project(server, locators[i], name)
       IN  /\ locators' = [locators EXCEPT ![i] = call.locator]
           /\ outcome' = [op |-> "get_project", err |-> call.err, i |-> i,
                          name |-> name, before |-> locators[i][3],
                          response |-> call.response, ret |-> call.ret]
    /\ UNCHANGED <<reg, server>>

GetServersToUpdate ==
    /\ outcome' = [op |-> "get_servers_to_update", err |-> "none",
                   ret |-> get_servers_to_update(locators, 1, << >>)]
    /\ UNCHANGED <<reg, locators, server>>

NextApi ==
    \/ \E i \in 1..Len(locators), name \in Names : GetProject(i, name)
    \/ GetServersToUpdate

SpecApi == InitApi /\ [][NextApi]_vars

\* The answer that ends a GET of the page of `name` on the remote of the
\* locator, after the redirects; None when the redirects do not end.
Answer(locator, name) ==
    retrieve(server, urljoin_path(locator[2], <<"api", name>>)).response

MaxLinks == 2

\* "http://pypi/simple/"
SimpleUrl == Http("", "pypi", "", <<"simple", "">>, NotWritten)

\* "http://pypi/simple/<path>"
Simple(path) == Http("", "pypi", "", <<"simple">> \o path, NotWritten)

\* What the file name of a link says: <<project, version>> for an archive,
\* None for a link that is not an archive.
split_filename(link) ==
    CASE Basename(link) = "my-pkg-2.0.tar.gz" -> <<"my-pkg", <<2, 0>> >>
      [] Basename(link) = "my-pkg-2.0.zip" -> <<"my-pkg", <<2, 0>> >>
      [] Basename(link) = "my-pkg-10.0.tar.gz" -> <<"my-pkg", <<10, 0>> >>
      [] Basename(link) = "my-pkg-10.0.win32.exe" -> <<"my-pkg", <<10, 0>> >>
      [] OTHER -> None

\* SimpleScrapingLocator._is_platform_dependent
is_platform_dependent(link) == Basename(link) = "my-pkg-10.0.win32.exe"

\* Locator.convert_url_to_download_info: the version and the URL of an
\* archive of the project, whichever way the name of the project is spelt.
convert_url_to_download_info(link, project_name) ==
    IF split_filename(link) # None
       /\ split_filename(link)[1] = replace(project_name, "_", "-")
    THEN <<split_filename(link)[2], link>>
    ELSE None

\* SimpleScrapingLocator._should_queue: the link is a page of this index
\* that the page names as a home page or as a download page.
should_queue(locator, link, url, rel) ==
    /\ split_filename(link) = None
    /\ hostname(urlparse(url)) = hostname(urlparse(locator[2]))
    /\ rel \in {"homepage", "download"}
    /\ link[1] \in {"http", "https", "ftp"}

\* get_page that lets the MaxRetryError of the opener through.
get_page_raising(srv, url) ==
    LET got == retrieve(srv, url)
    IN  IF got.err # "none" THEN [links |-> << >>, err |-> got.err]
        ELSE IF Len(got.response) = 4
        THEN [links |-> got.response[4], err |-> "none"]
        ELSE [links |-> << >>, err |-> "none"]

\* PyPiLocator.get_page: the links of the page, None when it cannot be had.
get_page(srv, url) ==
    LET got == retrieve(srv, url)
    IN  IF got.err = "MaxRetryError" THEN [links |-> << >>, err |-> "none"]
        ELSE IF got.err # "none" THEN [links |-> << >>, err |-> got.err]
        ELSE IF Len(got.response) = 4
        THEN [links |-> got.response[4], err |-> "none"]
        ELSE [links |-> << >>, err |-> "none"]

\* PyPiLocator._visit_link: <<version, distribution>> of the link.
visit_link(locator, project_name, link) ==
    LET info == IF is_platform_dependent(link) THEN None
                ELSE convert_url_to_download_info(link, project_name)
    IN  IF info # None
        THEN <<info[1], <<project_name, info[1], info[2], locator[2]>> >>
        ELSE <<None, None>>

\* PyPiLocator._fetch: fetch is the call, fetch_links the rounds of its
\* loop from the i-th link on; both give the versions, _seen and the
\* pages that were asked for, each <<url, subvisit>>, in the order of the
\* calls.
RECURSIVE fetch(_, _, _, _, _, _, _)
RECURSIVE fetch_links(_, _, _, _, _, _, _, _, _, _)
fetch_links(srv, locator, project_name, url, links, i, subvisit, versions, seen, fetched) ==
    IF i > Len(links)
    THEN [versions |-> versions, seen |-> seen, fetched |-> fetched, err |-> "none"]
    ELSE LET link == links[i][1]
             rel == links[i][2]
             sub == IF should_queue(locator, link, url, rel) /\ ~subvisit
                    THEN fetch(srv, locator, project_name, link, TRUE, seen, fetched)
                    ELSE [versions |-> << >>, seen |-> seen, fetched |-> fetched,
                          err |-> "none"]
             updated == sub.versions @@ versions
             visited == visit_link(locator, project_name, link)
             version == visited[1]
         IN  IF sub.err # "none" THEN sub
             ELSE IF link \in sub.seen
             THEN fetch_links(srv, locator, project_name, url, links, i + 1,
                              subvisit, updated, sub.seen, sub.fetched)
             ELSE fetch_links(srv, locator, project_name, url, links, i + 1,
                              subvisit,
                              IF version # None /\ version \notin DOMAIN updated
                              THEN (version :> visited[2]) @@ updated
                              ELSE updated,
                              sub.seen \cup {link}, sub.fetched)

fetch(srv, locator, project_name, url, subvisit, seen, fetched) ==
    IF get_page(srv, url).err # "none"
    THEN [versions |-> << >>, seen |-> seen,
          fetched |-> Append(fetched, <<url, subvisit>>),
          err |-> get_page(srv, url).err]
    ELSE fetch_links(srv, locator, project_name, url, get_page(srv, url).links,
                     1, subvisit, << >>, seen, Append(fetched, <<url, subvisit>>))

\* PyPiLocator._get_project: the page "<base_url><name>/" is fetched with
\* the _seen that the locator has.
pypi_get_project(srv, locator, name) ==
    fetch(srv, locator, name, urljoin_path(locator[2], <<name, "">>), FALSE,
          locator[3], << >>)

\* Locator.get_project: the catalog of a name is made once and kept.
get_project_cached(srv, locator, name) ==
    IF name \in DOMAIN locator[4]
    THEN [ret |-> locator[4][name], locator |-> locator, fetched |-> << >>,
          err |-> "none"]
    ELSE LET got == pypi_get_project(srv, locator, name)
         IN  IF got.err # "none"
             THEN [ret |-> None,
                   locator |-> <<locator[1], locator[2], got.seen, locator[4]>>,
                   fetched |-> got.fetched, err |-> got.err]
             ELSE [ret |-> got.versions,
                   locator |-> <<locator[1], locator[2], got.seen,
                                 (name :> got.versions) @@ locator[4]>>,
                   fetched |-> got.fetched, err |-> "none"]

\* The links that a page may have: three archives of my-pkg, an installer
\* for Windows, the page "more/" as a home page and the page of my-pkg as
\* a download page.
PageLinks ==
    { <<Simple(<<"files", "my-pkg-2.0.tar.gz">>), "">>,
      <<Simple(<<"files", "my-pkg-2.0.zip">>), "">>,
      <<Simple(<<"files", "my-pkg-10.0.tar.gz">>), "">>,
      <<Simple(<<"files", "my-pkg-10.0.win32.exe">>), "">>,
      <<Simple(<<"more", "">>), "homepage">>,
      <<Simple(<<"my-pkg", "">>), "download">> }

\* The answers of a page: HTML with links, Not Found without HTML, or a
\* redirect to the page itself.
PageAnswers(path) ==
    { <<200, None, None, links>> : links \in ListsUpTo(PageLinks, MaxLinks) }
    \cup { <<404, None, None>>, <<302, Simple(path), None>> }

\* The index serves one page under both spellings of the name.
InitScraping ==
    /\ InitRegistry
    /\ locators = << <<"PyPiLocator", SimpleUrl, {}, << >> >> >>
    /\ \E index \in PageAnswers(<<"my-pkg", "">>), more \in PageAnswers(<<"more", "">>) :
          server = (<<"pypi", <<"simple", "my-pkg", "">> >> :> index)
                   @@ (<<"pypi", <<"simple", "my_pkg", "">> >> :>
                         IF index[1] = 302
                         THEN <<302, Simple(<<"my_pkg", "">>), None>> ELSE index)
                   @@ (<<"pypi", <<"simple", "more", "">> >> :> more)
    /\ outcome = [op |-> "init", err |-> "none"]

\* get_project(name) of the scraping locator.
ScrapeProject(name) ==
    /\ LET call == get_project_cached(server, locators[1], name)
       IN  /\ locators' = <<call.locator>>
           /\ outcome' = [op |-> "get_project", err |-> call.err, name |-> name,
                          before |-> locators[1], fetched |-> call.fetched,
                          ret |-> call.ret]
    /\ UNCHANGED <<reg, server>>

NextScraping == \E name \in {"my-pkg", "my_pkg"} : ScrapeProject(name)

SpecScraping == InitScraping /\ [][NextScraping]_vars

\* The links of a page that has them, None otherwise.
LinksOf(url) ==
    IF Respond(server, url)[1] = 200 THEN Respond(server, url)[4] ELSE << >>

\* The links that a fetch of the page meets, in the order of the page,
\* those of a page fetched for a link standing before the link itself.
RECURSIVE Met(_, _, _)
Met(locator, url, i) ==
    IF i > Len(LinksOf(url)) THEN << >>
    ELSE LET link == LinksOf(url)[i]
         IN  (IF should_queue(locator, link[1], url, link[2])
              THEN [k \in 1..Len(LinksOf(link[1])) |-> LinksOf(link[1])[k][1]]
              ELSE << >>)
             \o <<link[1]>> \o Met(locator, url, i + 1)

\* The first of the links that yields the version.
FirstLink(locator, name, links, v) ==
    links[CHOOSE i \in 1..Len(links) :
            /\ visit_link(locator, name, links[i])[1] = v
            /\ \A j \in 1..(i - 1) : visit_link(locator, name, links[j])[1] # v]

(***************************************************************************)
(* C29.  For each version the catalog of a fetch holds the distribution    *)
(* of the first link, in the order of the page, that yields the version:   *)
(* no later link, on the page or on a page fetched for one of its links,   *)
(* takes the place of an entry that is recorded.                           *)
(***************************************************************************)
C29_FirstLinkWins ==
    (/\ outcome.op = "get_project"
     /\ outcome.err = "none"
     /\ outcome.before[3] = {}
     /\ outcome.name \notin DOMAIN outcome.before[4])
    => LET locator == locators[1]
           met == Met(locator, urljoin_path(locator[2], <<outcome.name, "">>), 1)
       IN  \A v \in DOMAIN outcome.ret :
              outcome.ret[v][3] = FirstLink(locator, outcome.name, met, v)

(***************************************************************************)
(* C30.  The guard against visiting a link twice is kept for one           *)
(* get_project call only: a page that was fetched before on the same       *)
(* locator, for the same name or for the other spelling of the name,       *)
(* yields the catalog that it yields on a new locator.                     *)
(***************************************************************************)
C30_SameCatalogAgain ==
    (outcome.op = "get_project" /\ outcome.err = "none")
    => outcome.ret
         = pypi_get_project(server, <<"PyPiLocator", SimpleUrl, {}, << >> >>,
                            outcome.name).versions

\* The urls of the links of a page.
UrlsOf(url) == { LinksOf(url)[k][1] : k \in 1..Len(LinksOf(url)) }

\* The redirects of the page do not end: the opener raises MaxRetryError.
Failed(url) == retrieve(server, url).err = "MaxRetryError"

(***************************************************************************)
(* C31.  The recursion of the fetch has one level: a page that was         *)
(* reached by a sub-fetch starts no sub-fetch, so that get_project ends    *)
(* for every set of pages, also when the pages link to each other in a     *)
(* cycle; and a page that cannot be fetched (MaxRetryError) adds nothing   *)
(* to the catalog and raises no error.                                     *)
(***************************************************************************)
C31_OneLevel ==
    outcome.op = "get_project"
    => LET index == urljoin_path(outcome.before[2], <<outcome.name, "">>)
           fetched == outcome.fetched
       IN  /\ outcome.err = "none"
           /\ IF outcome.name \in DOMAIN outcome.before[4]
              THEN fetched = << >>
              ELSE /\ fetched[1] = <<index, FALSE>>
                   /\ Len(fetched) <= 1 + Len(LinksOf(index))
                   /\ \A k \in 2..Len(fetched) :
                         /\ fetched[k][2]
                         /\ fetched[k][1] \in UrlsOf(index)
                   /\ Failed(index) => (outcome.ret = << >> /\ Len(fetched) = 1)
                   /\ \A v \in DOMAIN outcome.ret :
                         \E k \in 1..Len(fetched) :
                            /\ ~Failed(fetched[k][1])
                            /\ outcome.ret[v][3] \in UrlsOf(fetched[k][1])

\* The page of the project links to a page whose redirects do not end and
\* to itself, and both were fetched once more, one level down.
C31_Witness ==
    /\ outcome.op = "get_project"
    /\ outcome.err = "none"
    /\ \E k \in 2..Len(outcome.fetched) : Failed(outcome.fetched[k][1])
    /\ \E k \in 2..Len(outcome.fetched) :
          outcome.fetched[k][1] = outcome.fetched[1][1]

\* The filing step changed the entry of k and nothing else: a new entry is
\* PENDING with every slot unset and one back-link; an entry that was there
\* keeps its status, its slots and its back-links and gets one more.
FiledAs(k) ==
    /\ DOMAIN mapping' = DOMAIN mapping \cup {k}
    /\ \A x \in DOMAIN mapping \ {k} : mapping'[x] = mapping[x]
    /\ IF k \notin DOMAIN mapping
       THEN /\ mapping'[k].status = PENDING
            /\ \A field \in Fields : mapping'[k].data[field] = None
            /\ DOMAIN mapping'[k].data = Fields
            /\ Len(mapping'[k].dependency_of) = 1
       ELSE /\ mapping'[k].status = mapping[k].status
            /\ mapping'[k].data = mapping[k].data
            /\ Len(mapping'[k].dependency_of) = Len(mapping[k].dependency_of) + 1
            /\ SubSeq(mapping'[k].dependency_of, 1, Len(mapping[k].dependency_of))
                 = mapping[k].dependency_of

(***************************************************************************)
(* C32.  The first file_requirement of a requirement makes its entry with  *)
(* status PENDING and every data slot unset, and the status of an entry    *)
(* changes in no call but set_status and add_status; file_requirement of   *)
(* a requirement that is filed changes its list of back-links only and     *)
(* leaves its status, its data slots and all other entries as they were.   *)
(***************************************************************************)
C32_FilingFrame ==
    [][ /\ last'.op = "file_requirement"
           => \E k \in DOMAIN mapping' : FiledAs(k)
        /\ last'.op \notin {"set_status", "add_status"}
           => \A x \in DOMAIN mapping :
                 x \in DOMAIN mapping' /\ mapping'[x].status = mapping[x].status
      ]_vars

\* A requirement with a status and a wheel was filed once more.
C32_Witness ==
    /\ last.op = "file_requirement"
    /\ \E k \in DOMAIN mapping :
          /\ Len(mapping[k].dependency_of) >= 2
          /\ mapping[k].status # PENDING
          /\ mapping[k].data["wheel"] # None

(***************************************************************************)
(* C33.  When every filed requirement has a wheel, best_version of a       *)
(* filed package returns a pair of version and requirement or raises       *)
(* VersionConflict, and fails with no other error, also when the version   *)
(* of the wheel of a primary requirement does not satisfy the constraints  *)
(* of that requirement.                                                    *)
(***************************************************************************)
C33_PairOrConflict ==
    (\A r \in DOMAIN mapping : mapping[r].data["wheel"] # None)
    => \A name \in NameStrings : \A requirements \in Orders(Filed(name)) :
          Filed(name) # {}
          => best_version(mapping, name, requirements).err
               \in {"none", "VersionConflict"}

=============================================================================
